---- MODULE Spec2Model ----
(***************************************************************************)
(* The cache engine of go-cache-cluster (internal/cache/cache.go): a       *)
(* bounded LRU cache with per-entry TTL and a janitor goroutine that       *)
(* sweeps expired entries on a ticker.                                     *)
(*                                                                         *)
(* Callers are goroutines that call Get, Set, Len and Stop concurrently.   *)
(* A call is split where other goroutines can interleave: acquiring c.mu   *)
(* (a caller that cannot acquire it is blocked: its Lock step is not       *)
(* enabled) and the work done under c.mu.  Set is split once more, between *)
(* the store (update or PushFront) and the capacity check, because the     *)
(* list is one element too long in between.  The arguments of a call are   *)
(* drawn when its body runs: they are local to the caller until then.      *)
(***************************************************************************)
EXTENDS Integers, Sequences, FiniteSets, TLC

\* ------------------------------------------------------------ bounds
MaxTime == 3            \* the clock runs 1..MaxTime
MaxTTL  == 1            \* Set is called with ttl in -1..MaxTTL
MaxCap  == 2            \* New is called with capacity in -1..MaxCap

Procs  == {"p1", "p2"}  \* caller goroutines
Keys   == {"A", "B", "C"}
Values == {"v1", "v2"}
TTLs   == -1 .. MaxTTL
ReqCaps == -1 .. MaxCap

\* ------------------------------------------------------------ constants
Interval == 1           \* go c.runJanitor(1 * time.Second): one clock unit
ZeroTime == 0           \* var expiresAt time.Time: the zero time, "never"

None    == "none"       \* no key / no value / no goroutine
NilElem == <<"nil", 0>> \* (*list.Element)(nil)

\* A list element is a heap cell <<key, n>>: the allocator hands out, for an
\* entry of key k, a cell <<k, n>> that is not in use.

VARIABLES
    requested,  \* the capacity New was called with
    capacity,   \* c.capacity
    ll,         \* c.ll: sequence of elements, front first
    ent,        \* heap: element -> *entry {key, value, expiresAt}
    items,      \* c.items: key -> element
    mu,         \* c.mu: [w: writer holding Lock, r: readers holding RLock]
    now,        \* time.Now()
    tick,       \* a tick is buffered in ticker.C
    jpc,        \* where the janitor goroutine is
    pc,         \* where each caller is
    loc,        \* each caller's locals while inside Set, and what it found
    last,       \* the call the last step returned from, with its result
    lastSet,    \* history: per key, the value of the last Set still in force
    recent      \* history: the cached keys, the one used last first

vars == <<requested, capacity, ll, ent, items, mu, now, tick, jpc, pc, loc,
          last, lastSet, recent>>

\* ------------------------------------------------------------ entry
\* an isExpired that never reports expiry
isExpiredNever(e, t) == FALSE

\* (e *entry) isExpired at clock reading t
isExpired(e, t) ==
    IF e.expiresAt = ZeroTime THEN FALSE ELSE t > e.expiresAt

\* an expiresAt that ends the lifetime at the write
ExpiresAtOnce(ttl, t) == IF ttl > 0 THEN t ELSE ZeroTime

\* an expiresAt without the ttl > 0 test
ExpiresAtUnchecked(ttl, t) == t + ttl

\* expiresAt as Set computes it
ExpiresAt(ttl, t) == IF ttl > 0 THEN t + ttl ELSE ZeroTime

\* an update that replaces the value and keeps the old expiry
UpdateEntryKeepsExpiry(e, value, expiresAt) == [e EXCEPT !.value = value]

\* an update that recomputes the expiry and keeps the old value
UpdateEntryKeepsValue(e, value, expiresAt) ==
    [e EXCEPT !.expiresAt = expiresAt]

\* Set on a key that is present: ent.value = value; ent.expiresAt = expiresAt
UpdateEntry(e, value, expiresAt) ==
    [e EXCEPT !.value = value, !.expiresAt = expiresAt]

\* a capacity check that lets the list grow one past the capacity
OverCapacityOffByOne(l, cap) == cap > 0 /\ Len(l) > cap + 1

\* the capacity check of Set
OverCapacity(l, cap) == cap > 0 /\ Len(l) > cap

\* ------------------------------------------------------------ container/list
Elems(l) == {l[i] : i \in 1 .. Len(l)}

Remove(l, e) ==
    LET Keep(x) == x # e IN SelectSeq(l, Keep)

\* a PushFront that inserts at the back
PushBack(l, e) == l \o <<e>>

PushFront(l, e) == <<e>> \o l

\* a MoveToFront that sends an element already at the front to the back
MoveToFrontOrBack(l, e) ==
    IF e \notin Elems(l) THEN l
    ELSE IF l[1] = e THEN Remove(l, e) \o <<e>>
    ELSE <<e>> \o Remove(l, e)

\* a MoveToFront that moves the element to the back
MoveToBack(l, e) == IF e \in Elems(l) THEN Remove(l, e) \o <<e>> ELSE l

\* a MoveToFront that leaves the list as it is
MoveToFrontNoop(l, e) == l

MoveToFront(l, e) == IF e \in Elems(l) THEN <<e>> \o Remove(l, e) ELSE l

\* a Back that returns the other end of the list
BackIsFront(l) == IF Len(l) = 0 THEN NilElem ELSE l[1]

Back(l) == IF Len(l) = 0 THEN NilElem ELSE l[Len(l)]

\* ------------------------------------------------------------ map and heap
\* a delete that empties the map
MapDeleteAll(m, k) == [x \in {} |-> m[x]]

MapDelete(m, k) == [x \in (DOMAIN m) \ {k} |-> m[x]]

MapPut(m, k, v) == [x \in (DOMAIN m) \cup {k} |-> IF x = k THEN v ELSE m[x]]

Range(m) == {m[x] : x \in DOMAIN m}

EmptyMap == [x \in {} |-> NilElem]

\* a fresh element for key k: a cell neither in the list nor in the map
Alloc(l, m, k) ==
    IF <<k, 1>> \notin Elems(l) \cup Range(m) THEN <<k, 1>> ELSE <<k, 2>>

\* the garbage collector: cells reachable from neither c.ll nor c.items go
Collect(h, l, m) == [e \in (DOMAIN h) \cap (Elems(l) \cup Range(m)) |-> h[e]]

\* the keys in list order, front first
KeysOf(l, h) == [i \in 1 .. Len(l) |-> h[l[i]].key]

\* the first of a sequence of keys, the key at the front of the list
FirstKey(ks) == IF Len(ks) = 0 THEN None ELSE ks[1]

FrontKey(l, h) == FirstKey(KeysOf(l, h))

\* ------------------------------------------------------------ sync.RWMutex
Unlocked == [w |-> None, r |-> {}]

\* a Lock that succeeds whoever holds the mutex
CanLockAlways == TRUE

CanLock == mu.w = None /\ mu.r = {}

\* a goroutine blocked in Lock keeps new readers out
WriterWaiting == jpc = "evict"

CanRLock == mu.w = None /\ ~WriterWaiting

\* a Len that returns without RUnlock
RUnlockForgotten(m, p) == m

RUnlock(m, p) == [m EXCEPT !.r = @ \ {p}]

\* ------------------------------------------------------------ results
NoLoc == [key |-> None, ttl |-> 0, path |-> None, pre |-> <<>>,
          revived |-> FALSE]

NoCall == [op |-> None, by |-> None, key |-> None, val |-> None,
           found |-> FALSE, path |-> None, n |-> 0, evicted |-> None,
           front |-> None, revived |-> FALSE, stale |-> FALSE]

\* ------------------------------------------------------------ history
\* the keys ks without the keys in gone, which have left the cache
Drop(ks, gone) == SelectSeq(ks, LAMBDA k : k \notin gone)

\* the keys ks after key k was set or found: k is the one used last
Touch(ks, k) == <<k>> \o Drop(ks, {k})

\* ------------------------------------------------------------ New
\* a New that takes the capacity as given
NewUncoerced(cap) == cap

New(cap) == IF cap <= 0 THEN 1 ELSE cap

Init ==
    /\ requested \in ReqCaps
    /\ capacity = New(requested)
    /\ ll = <<>>
    /\ ent = EmptyMap
    /\ items = EmptyMap
    /\ mu = Unlocked
    /\ now = 1
    /\ tick = FALSE
    /\ jpc = "start"
    /\ pc = [p \in Procs |-> "idle"]
    /\ loc = [p \in Procs |-> NoLoc]
    /\ last = NoCall
    /\ lastSet = [k \in Keys |-> None]
    /\ recent = <<>>

\* ------------------------------------------------------------ the clock
\* One clock unit passes; a running ticker puts a tick in its channel,
\* which holds one tick and drops the rest.
TickerRunning == jpc \in {"select", "evict", "evict_cs", "exit"}

Advance ==
    /\ now < MaxTime
    /\ now' = now + Interval
    /\ tick' = (tick \/ TickerRunning)
    /\ last' = NoCall
    /\ UNCHANGED <<requested, capacity, ll, ent, items, mu, jpc, pc, loc,
                   lastSet, recent>>

\* ------------------------------------------------------------ Get
LockGet(p) ==
    /\ pc[p] = "idle"
    /\ CanLock
    /\ mu' = [mu EXCEPT !.w = p]
    /\ pc' = [pc EXCEPT ![p] = "get_cs"]
    /\ last' = NoCall
    /\ UNCHANGED <<requested, capacity, ll, ent, items, now, tick, jpc, loc,
                   lastSet, recent>>

\* the body of Get under c.mu, and the deferred Unlock
Get(p, key) ==
    /\ pc[p] = "get_cs"
    /\ mu.w = p
    /\ IF key \in DOMAIN items
         THEN LET element == items[key]
                  e == ent[element]
              IN IF isExpired(e, now)
                   THEN LET l2 == Remove(ll, element)
                            m2 == MapDelete(items, e.key)
                        IN /\ ll' = l2
                           /\ items' = m2
                           /\ ent' = Collect(ent, l2, m2)
                           /\ lastSet' = [lastSet EXCEPT ![e.key] = None]
                           /\ recent' = Drop(recent, {key})
                           /\ last' = [NoCall EXCEPT !.op = "get", !.by = p,
                                          !.key = key, !.path = "lazy",
                                          !.front = FrontKey(ll, ent)]
                   ELSE /\ ll' = MoveToFront(ll, element)
                        /\ recent' = Touch(recent, key)
                        /\ last' = [NoCall EXCEPT !.op = "get", !.by = p,
                                       !.key = key, !.path = "hit",
                                       !.found = TRUE, !.val = e.value,
                                       !.front = FrontKey(ll, ent)]
                        /\ UNCHANGED <<items, ent, lastSet>>
         ELSE /\ last' = [NoCall EXCEPT !.op = "get", !.by = p,
                             !.key = key, !.path = "miss",
                             !.front = FrontKey(ll, ent)]
              /\ UNCHANGED <<ll, items, ent, lastSet, recent>>
    /\ mu' = Unlocked
    /\ pc' = [pc EXCEPT ![p] = "idle"]
    /\ UNCHANGED <<requested, capacity, now, tick, jpc, loc>>

\* ------------------------------------------------------------ Set
LockSet(p) ==
    /\ pc[p] = "idle"
    /\ CanLock
    /\ mu' = [mu EXCEPT !.w = p]
    /\ pc' = [pc EXCEPT ![p] = "set_cs"]
    /\ last' = NoCall
    /\ UNCHANGED <<requested, capacity, ll, ent, items, now, tick, jpc, loc,
                   lastSet, recent>>

\* Set up to the capacity check: expiresAt, then update in place or insert
SetStore(p, key, value, ttl) ==
    /\ pc[p] = "set_cs"
    /\ mu.w = p
    /\ LET expiresAt == ExpiresAt(ttl, now)
       IN IF key \in DOMAIN items
            THEN LET element == items[key]
                 IN /\ ll' = MoveToFront(ll, element)
                    /\ ent' = [ent EXCEPT ![element] =
                                  UpdateEntry(@, value, expiresAt)]
                    /\ items' = items
                    /\ loc' = [loc EXCEPT ![p] = [key |-> key, ttl |-> ttl,
                                      path |-> "update",
                                      pre |-> KeysOf(ll, ent),
                                      revived |->
                                          isExpired(ent[element], now)]]
            ELSE LET element == Alloc(ll, items, key)
                     newEntry == [key |-> key, value |-> value,
                                  expiresAt |-> expiresAt]
                 IN /\ ll' = PushFront(ll, element)
                    /\ ent' = MapPut(ent, element, newEntry)
                    /\ items' = MapPut(items, key, element)
                    /\ loc' = [loc EXCEPT ![p] = [key |-> key, ttl |-> ttl,
                                      path |-> "insert",
                                      pre |-> KeysOf(ll, ent),
                                      revived |-> FALSE]]
    /\ lastSet' = [lastSet EXCEPT ![key] = value]
    /\ recent' = Touch(recent, key)
    /\ pc' = [pc EXCEPT ![p] = "set_evict"]
    /\ last' = NoCall
    /\ UNCHANGED <<requested, capacity, mu, now, tick, jpc>>

\* a capacity check that evicts an expired entry when there is one, and
\* the back only when there is none
SetEvictExpiredFirst(p) ==
    /\ pc[p] = "set_evict"
    /\ mu.w = p
    /\ IF OverCapacity(ll, capacity) /\ Back(ll) # NilElem
         THEN LET expired == SelectSeq(ll, LAMBDA x : isExpired(ent[x], now))
                  lastElem == IF expired # <<>> THEN expired[Len(expired)]
                              ELSE Back(ll)
                  lastEntry == ent[lastElem]
                  m2 == MapDelete(items, lastEntry.key)
                  l2 == Remove(ll, lastElem)
              IN /\ items' = m2
                 /\ ll' = l2
                 /\ ent' = Collect(ent, l2, m2)
                 /\ lastSet' = [lastSet EXCEPT ![lastEntry.key] = None]
                 /\ recent' = Drop(recent, {lastEntry.key})
                 /\ last' = [NoCall EXCEPT !.op = "set", !.by = p,
                                !.key = loc[p].key, !.path = loc[p].path,
                                !.evicted = lastEntry.key,
                                !.stale = isExpired(lastEntry, now),
                                !.front = FirstKey(loc[p].pre)]
         ELSE /\ last' = [NoCall EXCEPT !.op = "set", !.by = p,
                             !.key = loc[p].key, !.path = loc[p].path,
                             !.revived = loc[p].revived,
                             !.front = FirstKey(loc[p].pre)]
              /\ UNCHANGED <<items, ll, ent, lastSet, recent>>
    /\ mu' = Unlocked
    /\ loc' = [loc EXCEPT ![p] = NoLoc]
    /\ pc' = [pc EXCEPT ![p] = "idle"]
    /\ UNCHANGED <<requested, capacity, now, tick, jpc>>

\* the capacity check of Set, and the deferred Unlock
SetEvict(p) ==
    /\ pc[p] = "set_evict"
    /\ mu.w = p
    /\ IF OverCapacity(ll, capacity) /\ Back(ll) # NilElem
         THEN LET lastElem == Back(ll)
                  lastEntry == ent[lastElem]
                  m2 == MapDelete(items, lastEntry.key)
                  l2 == Remove(ll, lastElem)
              IN /\ items' = m2
                 /\ ll' = l2
                 /\ ent' = Collect(ent, l2, m2)
                 /\ lastSet' = [lastSet EXCEPT ![lastEntry.key] = None]
                 /\ recent' = Drop(recent, {lastEntry.key})
                 /\ last' = [NoCall EXCEPT !.op = "set", !.by = p,
                                !.key = loc[p].key, !.path = loc[p].path,
                                !.evicted = lastEntry.key,
                                !.stale = isExpired(lastEntry, now),
                                !.front = FirstKey(loc[p].pre)]
         ELSE /\ last' = [NoCall EXCEPT !.op = "set", !.by = p,
                             !.key = loc[p].key, !.path = loc[p].path,
                             !.revived = loc[p].revived,
                             !.front = FirstKey(loc[p].pre)]
              /\ UNCHANGED <<items, ll, ent, lastSet, recent>>
    /\ mu' = Unlocked
    /\ loc' = [loc EXCEPT ![p] = NoLoc]
    /\ pc' = [pc EXCEPT ![p] = "idle"]
    /\ UNCHANGED <<requested, capacity, now, tick, jpc>>

\* ------------------------------------------------------------ Len
RLockLen(p) ==
    /\ pc[p] = "idle"
    /\ CanRLock
    /\ mu' = [mu EXCEPT !.r = @ \cup {p}]
    /\ pc' = [pc EXCEPT ![p] = "len_cs"]
    /\ last' = NoCall
    /\ UNCHANGED <<requested, capacity, ll, ent, items, now, tick, jpc, loc,
                   lastSet, recent>>

\* a Len that counts the entries that are not expired
CacheLenUnexpired(p) ==
    /\ pc[p] = "len_cs"
    /\ last' = [NoCall EXCEPT !.op = "len", !.by = p,
                   !.n = Len(SelectSeq(ll, LAMBDA x : ~isExpired(ent[x], now)))]
    /\ mu' = RUnlock(mu, p)
    /\ pc' = [pc EXCEPT ![p] = "idle"]
    /\ UNCHANGED <<requested, capacity, ll, ent, items, now, tick, jpc, loc,
                   lastSet, recent>>

\* return c.ll.Len(), and the deferred RUnlock
CacheLen(p) ==
    /\ pc[p] = "len_cs"
    /\ last' = [NoCall EXCEPT !.op = "len", !.by = p, !.n = Len(ll)]
    /\ mu' = RUnlock(mu, p)
    /\ pc' = [pc EXCEPT ![p] = "idle"]
    /\ UNCHANGED <<requested, capacity, ll, ent, items, now, tick, jpc, loc,
                   lastSet, recent>>

\* ------------------------------------------------------------ the janitor
\* runJanitor up to its select: the ticker is created
JanitorStart ==
    /\ jpc = "start"
    /\ jpc' = "select"
    /\ last' = NoCall
    /\ UNCHANGED <<requested, capacity, ll, ent, items, mu, now, tick, pc,
                   loc, lastSet, recent>>

\* case <-ticker.C
JanitorTick ==
    /\ jpc = "select"
    /\ tick
    /\ tick' = FALSE
    /\ jpc' = "evict"
    /\ last' = NoCall
    /\ UNCHANGED <<requested, capacity, ll, ent, items, mu, now, pc, loc,
                   lastSet, recent>>

\* evictExpired: c.mu.Lock()
LockEvict ==
    /\ jpc = "evict"
    /\ CanLock
    /\ mu' = [mu EXCEPT !.w = "janitor"]
    /\ jpc' = "evict_cs"
    /\ last' = NoCall
    /\ UNCHANGED <<requested, capacity, ll, ent, items, now, tick, pc, loc,
                   lastSet, recent>>

\* a scan that collects every element
ToRemoveAll(l, h, t) == l

\* a scan that collects nothing
ToRemoveNothing(l, h, t) == <<>>

\* the elements evictExpired collects, in list order
ToRemove(l, h, t) ==
    LET Expired(x) == isExpired(h[x], t) IN SelectSeq(l, Expired)

\* a second loop that forgets delete(c.items, ent.key)
RemoveAllKeepsIndex(l, m, h, toRemove) ==
    LET Keep(x) == x \notin Elems(toRemove) IN <<SelectSeq(l, Keep), m>>

\* the list and the map after evictExpired's second loop over toRemove
RECURSIVE RemoveAll(_, _, _, _)
RemoveAll(l, m, h, toRemove) ==
    IF toRemove = <<>> THEN <<l, m>>
    ELSE LET element == Head(toRemove)
         IN RemoveAll(Remove(l, element), MapDelete(m, h[element].key), h,
                      Tail(toRemove))

\* the body of evictExpired under c.mu, the deferred Unlock, back to select
evictExpired ==
    /\ jpc = "evict_cs"
    /\ mu.w = "janitor"
    /\ LET toRemove == ToRemove(ll, ent, now)
           after == RemoveAll(ll, items, ent, toRemove)
       IN /\ ll' = after[1]
          /\ items' = after[2]
          /\ ent' = Collect(ent, after[1], after[2])
          /\ lastSet' = [k \in Keys |->
                           IF k \in {ent[x].key : x \in Elems(toRemove)}
                             THEN None ELSE lastSet[k]]
          /\ recent' = Drop(recent, {ent[x].key : x \in Elems(toRemove)})
    /\ last' = [NoCall EXCEPT !.op = "sweep", !.by = "janitor",
                   !.n = Len(ToRemove(ll, ent, now))]
    /\ mu' = Unlocked
    /\ jpc' = "select"
    /\ UNCHANGED <<requested, capacity, now, tick, pc, loc>>

\* a janitor that returns with c.mu locked
JanitorExitLocked ==
    /\ jpc = "exit"
    /\ jpc' = "done"
    /\ mu' = [mu EXCEPT !.w = "janitor"]
    /\ last' = NoCall
    /\ UNCHANGED <<requested, capacity, ll, ent, items, now, tick, pc, loc,
                   lastSet, recent>>

\* a janitor that goes on with its loop after case <-c.stopJanitor
JanitorContinues ==
    /\ jpc = "exit"
    /\ jpc' = "select"
    /\ last' = NoCall
    /\ UNCHANGED <<requested, capacity, ll, ent, items, mu, now, tick, pc,
                   loc, lastSet, recent>>

\* return after case <-c.stopJanitor: ticker.Stop(), close(c.janitorDone)
JanitorExit ==
    /\ jpc = "exit"
    /\ jpc' = "done"
    /\ last' = NoCall
    /\ UNCHANGED <<requested, capacity, ll, ent, items, mu, now, tick, pc,
                   loc, lastSet, recent>>

\* ------------------------------------------------------------ Stop
\* a stopJanitor channel with room for every send
JanitorReceivingAlways == TRUE

\* a send on the unbuffered c.stopJanitor can proceed only while the janitor
\* is parked in its select
JanitorReceiving == jpc = "select"

\* case c.stopJanitor <- struct{}{}: the janitor takes the signal
StopSend(p) ==
    /\ pc[p] = "idle"
    /\ JanitorReceiving
    /\ jpc' = "exit"
    /\ pc' = [pc EXCEPT ![p] = "stop_wait"]
    /\ last' = NoCall
    /\ UNCHANGED <<requested, capacity, ll, ent, items, mu, now, tick, loc,
                   lastSet, recent>>

\* <-c.janitorDone, then return
StopJoin(p) ==
    /\ pc[p] = "stop_wait"
    /\ jpc = "done"
    /\ pc' = [pc EXCEPT ![p] = "idle"]
    /\ last' = [NoCall EXCEPT !.op = "stop", !.by = p, !.path = "signalled"]
    /\ UNCHANGED <<requested, capacity, ll, ent, items, mu, now, tick, jpc,
                   loc, lastSet, recent>>

\* default: nobody is receiving, Stop returns at once
StopDefault(p) ==
    /\ pc[p] = "idle"
    /\ ~JanitorReceiving
    /\ pc' = [pc EXCEPT ![p] = "idle"]
    /\ last' = [NoCall EXCEPT !.op = "stop", !.by = p, !.path = "default"]
    /\ UNCHANGED <<requested, capacity, ll, ent, items, mu, now, tick, jpc,
                   loc, lastSet, recent>>

\* ------------------------------------------------------------ specification
\* what the janitor goroutine can do
JanitorStep ==
    \/ JanitorStart
    \/ JanitorTick
    \/ LockEvict
    \/ evictExpired
    \/ JanitorExit

\* what caller p can do, with keys, values and ttls drawn from K, V and T
CallerStep(p, K, V, T) ==
    \/ LockGet(p)
    \/ \E key \in K : Get(p, key)
    \/ LockSet(p)
    \/ \E key \in K, value \in V, ttl \in T : SetStore(p, key, value, ttl)
    \/ SetEvict(p)
    \/ RLockLen(p)
    \/ CacheLen(p)
    \/ StopSend(p)
    \/ StopJoin(p)
    \/ StopDefault(p)

Next ==
    \/ Advance
    \/ JanitorStep
    \/ \E p \in Procs : CallerStep(p, Keys, Values, TTLs)

Spec == Init /\ [][Next]_vars

\* ------------------------------------------------------------ the service
\* internal/server: the gRPC handlers in front of the cache.  A handler runs
\* in the goroutine of its request, so the callers above are the handlers
\* of Get and Set requests as well; what a handler adds to the engine call
\* is the reply it makes of the result.

\* the reply to a request: a status code and, with OK, the message
NotFound      == "NotFound"
Unimplemented == "Unimplemented"
OK            == "OK"

\* a handler that answers a miss with an empty value and no error
serverGetEmptyOnMiss(value, ok) == [code |-> OK, value |-> value]

\* server.Get after value, ok := s.cache.Get(req.Key)
serverGet(value, ok) ==
    IF ~ok THEN [code |-> NotFound, value |-> None]
    ELSE [code |-> OK, value |-> value]

\* a Delete handler wired to the engine: it removes the key under the lock
serverDeleteWired(p, key) ==
    /\ pc[p] = "idle"
    /\ CanLock
    /\ LET l2 == IF key \in DOMAIN items THEN Remove(ll, items[key]) ELSE ll
           m2 == MapDelete(items, key)
       IN /\ ll' = l2
          /\ items' = m2
          /\ ent' = Collect(ent, l2, m2)
    /\ lastSet' = [lastSet EXCEPT ![key] = None]
    /\ recent' = Drop(recent, {key})
    /\ last' = [NoCall EXCEPT !.op = "delete", !.by = p, !.key = key,
                   !.path = OK]
    /\ UNCHANGED <<requested, capacity, mu, now, tick, jpc, pc, loc>>

\* server.Delete: the reply is Unimplemented, the cache is not called
serverDelete(p, key) ==
    /\ pc[p] = "idle"
    /\ last' = [NoCall EXCEPT !.op = "delete", !.by = p, !.key = key,
                   !.path = Unimplemented]
    /\ UNCHANGED <<requested, capacity, ll, ent, items, mu, now, tick, jpc,
                   pc, loc, lastSet, recent>>

\* The service: Get and Set requests are the callers' calls, and Delete
\* requests come with them.  Two handlers, two keys, one value.
SvcProcs  == {"p1", "p2"}
SvcKeys   == {"A", "B"}
SvcValues == {"v1"}

NextSvc ==
    \/ Advance
    \/ JanitorStep
    \/ \E p \in SvcProcs : CallerStep(p, SvcKeys, SvcValues, TTLs)
    \/ \E p \in SvcProcs, key \in SvcKeys : serverDelete(p, key)

SpecSvc == Init /\ [][NextSvc]_vars

\* ------------------------------------------------------------ liveness
\* Two callers, two keys, one value: enough for an entry to expire while
\* the callers keep taking the lock.
LiveProcs  == {"p1", "p2"}
LiveKeys   == {"A", "B"}
LiveValues == {"v1"}

NextLive ==
    \/ Advance
    \/ JanitorStep
    \/ \E p \in LiveProcs : CallerStep(p, LiveKeys, LiveValues, TTLs)

\* The clock advances and every started goroutine keeps running: the
\* janitor takes every step it can, and a caller inside a critical section
\* leaves it.  sync.Mutex hands the lock to a goroutine that has waited
\* (starvation mode), so the janitor gets the lock although callers keep
\* taking it: strong fairness for LockEvict.  A caller blocked in
\* <-c.janitorDone returns once the channel is closed.  Callers need not
\* call at all.
Fairness ==
    /\ WF_vars(Advance)
    /\ WF_vars(JanitorStart)
    /\ WF_vars(JanitorTick)
    /\ SF_vars(LockEvict)
    /\ WF_vars(evictExpired)
    /\ WF_vars(JanitorExit)
    /\ \A p \in LiveProcs :
          /\ WF_vars(\E key \in LiveKeys : Get(p, key))
          /\ WF_vars(\E key \in LiveKeys, value \in LiveValues, ttl \in TTLs :
                        SetStore(p, key, value, ttl))
          /\ WF_vars(SetEvict(p))
          /\ WF_vars(CacheLen(p))
          /\ WF_vars(StopJoin(p))

SpecLive == Init /\ [][NextLive]_vars /\ Fairness

\* ------------------------------------------------------------ waiting
\* The same goroutines with the wait for c.mu made visible: a caller first
\* enters its call, and is then blocked in Lock or RLock until the mutex
\* lets it in.  sync.RWMutex.Lock first takes the writers' mutex, which
\* turns new readers away, and then waits until the readers that are
\* inside have left; here mu.w is the goroutine that holds the writers'
\* mutex, inside the critical section or still waiting for the readers.
WaitProcs  == {"p1", "p2"}
WaitKeys   == {"A", "B"}
WaitValues == {"v1"}
WaitTTLs   == {0, MaxTTL}
WaitCap    == 1         \* New(WaitCap): every insertion but the first evicts

InitWait == Init /\ requested = WaitCap

\* caller p enters Get, Set or Len
CallGet(p) ==
    /\ pc[p] = "idle"
    /\ pc' = [pc EXCEPT ![p] = "get_wait"]
    /\ last' = NoCall
    /\ UNCHANGED <<requested, capacity, ll, ent, items, mu, now, tick, jpc,
                   loc, lastSet, recent>>

CallSet(p) ==
    /\ pc[p] = "idle"
    /\ pc' = [pc EXCEPT ![p] = "set_wait"]
    /\ last' = NoCall
    /\ UNCHANGED <<requested, capacity, ll, ent, items, mu, now, tick, jpc,
                   loc, lastSet, recent>>

CallLen(p) ==
    /\ pc[p] = "idle"
    /\ pc' = [pc EXCEPT ![p] = "len_wait"]
    /\ last' = NoCall
    /\ UNCHANGED <<requested, capacity, ll, ent, items, mu, now, tick, jpc,
                   loc, lastSet, recent>>

\* where a goroutine blocked in Lock goes once it has the writers' mutex:
\* into the critical section, or to wait for the readers inside to leave
Locked(m, cs, drain) == IF m.r = {} THEN cs ELSE drain

\* c.mu.Lock() of Get and Set: the writers' mutex is taken
LockWriter(p) ==
    /\ pc[p] \in {"get_wait", "set_wait"}
    /\ mu.w = None
    /\ mu' = [mu EXCEPT !.w = p]
    /\ pc' = [pc EXCEPT ![p] =
                 IF pc[p] = "get_wait"
                   THEN Locked(mu, "get_cs", "get_drain")
                   ELSE Locked(mu, "set_cs", "set_drain")]
    /\ last' = NoCall
    /\ UNCHANGED <<requested, capacity, ll, ent, items, now, tick, jpc, loc,
                   lastSet, recent>>

\* c.mu.Lock() of Get and Set: the last reader has left
ReadersGone(p) ==
    /\ pc[p] \in {"get_drain", "set_drain"}
    /\ mu.w = p
    /\ mu.r = {}
    /\ pc' = [pc EXCEPT ![p] =
                 IF pc[p] = "get_drain" THEN "get_cs" ELSE "set_cs"]
    /\ last' = NoCall
    /\ UNCHANGED <<requested, capacity, ll, ent, items, mu, now, tick, jpc,
                   loc, lastSet, recent>>

\* c.mu.RLock() of Len: no writer has the writers' mutex
RLockReader(p) ==
    /\ pc[p] = "len_wait"
    /\ mu.w = None
    /\ mu' = [mu EXCEPT !.r = @ \cup {p}]
    /\ pc' = [pc EXCEPT ![p] = "len_cs"]
    /\ last' = NoCall
    /\ UNCHANGED <<requested, capacity, ll, ent, items, now, tick, jpc, loc,
                   lastSet, recent>>

\* c.mu.Lock() of evictExpired: the writers' mutex is taken
LockJanitor ==
    /\ jpc = "evict"
    /\ mu.w = None
    /\ mu' = [mu EXCEPT !.w = "janitor"]
    /\ jpc' = Locked(mu, "evict_cs", "evict_drain")
    /\ last' = NoCall
    /\ UNCHANGED <<requested, capacity, ll, ent, items, now, tick, pc, loc,
                   lastSet, recent>>

\* c.mu.Lock() of evictExpired: the last reader has left
ReadersGoneJanitor ==
    /\ jpc = "evict_drain"
    /\ mu.w = "janitor"
    /\ mu.r = {}
    /\ jpc' = "evict_cs"
    /\ last' = NoCall
    /\ UNCHANGED <<requested, capacity, ll, ent, items, mu, now, tick, pc,
                   loc, lastSet, recent>>

\* what caller p can do
CallerStepWait(p) ==
    \/ CallGet(p)
    \/ CallSet(p)
    \/ CallLen(p)
    \/ LockWriter(p)
    \/ ReadersGone(p)
    \/ RLockReader(p)
    \/ \E key \in WaitKeys : Get(p, key)
    \/ \E key \in WaitKeys, value \in WaitValues, ttl \in WaitTTLs :
          SetStore(p, key, value, ttl)
    \/ SetEvict(p)
    \/ CacheLen(p)
    \/ StopSend(p)
    \/ StopJoin(p)
    \/ StopDefault(p)

\* what the janitor can do
JanitorStepWait ==
    \/ JanitorStart
    \/ JanitorTick
    \/ LockJanitor
    \/ ReadersGoneJanitor
    \/ evictExpired
    \/ JanitorExit

NextWait ==
    \/ Advance
    \/ JanitorStepWait
    \/ \E p \in WaitProcs : CallerStepWait(p)

\* Every goroutine that can run does.  The writers' mutex is a sync.Mutex,
\* which hands itself to a goroutine that has waited long (starvation
\* mode): strong fairness for taking it.  Unlock lets in the readers that
\* were turned away before the next writer gets the writers' mutex: strong
\* fairness for RLock.  Callers need not call at all.
FairnessWait ==
    /\ WF_vars(Advance)
    /\ WF_vars(JanitorStart)
    /\ WF_vars(JanitorTick)
    /\ SF_vars(LockJanitor)
    /\ WF_vars(ReadersGoneJanitor)
    /\ WF_vars(evictExpired)
    /\ WF_vars(JanitorExit)
    /\ \A p \in WaitProcs :
          /\ SF_vars(LockWriter(p))
          /\ WF_vars(ReadersGone(p))
          /\ SF_vars(RLockReader(p))
          /\ WF_vars(\E key \in WaitKeys : Get(p, key))
          /\ WF_vars(\E key \in WaitKeys, value \in WaitValues,
                        ttl \in WaitTTLs : SetStore(p, key, value, ttl))
          /\ WF_vars(SetEvict(p))
          /\ WF_vars(CacheLen(p))
          /\ WF_vars(StopJoin(p))

SpecWait == InitWait /\ [][NextWait]_vars /\ FairnessWait

\* ============================================================ claims
\* the lock is held by nobody: no Get, Set or sweep is inside its body
LockFree == mu.w = None

\* C1: whenever the lock is not held, the index and the recency order hold
\* the same number of entries and at most capacity of them; every value
\* Len returns is at most capacity.
C1_SizeWithinCapacity ==
    /\ LockFree => /\ Cardinality(DOMAIN items) = Len(ll)
                   /\ Len(ll) <= capacity
    /\ last.op = "len" => last.n <= capacity

\* Len has just returned capacity on a full cache of capacity 2
C1_Witness ==
    /\ last.op = "len" /\ last.n = capacity /\ capacity = 2
    /\ LockFree /\ Len(ll) = capacity

\* under the lock, between the store and the capacity check of Set, the
\* list is one longer than the capacity
C1_TransientWitness ==
    \E p \in Procs : pc[p] = "set_evict" /\ Len(ll) = capacity + 1

\* C2: the index and the recency order are in bijection: every key of the
\* index maps to an element of the order that carries that key, every
\* element of the order carries a key the index maps back to that element,
\* and no element and no key occurs twice in the order.
C2_Bijection ==
    /\ \A k \in DOMAIN items :
          /\ items[k] \in Elems(ll)
          /\ items[k] \in DOMAIN ent
          /\ ent[items[k]].key = k
    /\ \A i \in 1 .. Len(ll) :
          /\ ll[i] \in DOMAIN ent
          /\ ent[ll[i]].key \in DOMAIN items
          /\ items[ent[ll[i]].key] = ll[i]
    /\ \A i, j \in 1 .. Len(ll) :
          i # j => ll[i] # ll[j] /\ ent[ll[i]].key # ent[ll[j]].key

\* a sweep has just removed one of two cached entries while a caller was
\* waiting to get the lock back
C2_Witness ==
    /\ last.op = "sweep" /\ last.n = 1
    /\ Len(ll) = 1
    /\ capacity = 2

\* the keys of a sequence of keys
KeySet(ks) == {ks[i] : i \in 1 .. Len(ks)}

\* all of a sequence but its last member
AllButLast(ks) == SubSeq(ks, 1, Len(ks) - 1)

\* caller p returns from a Set that inserted a key the index did not hold
\* into a cache that already held capacity entries
FullInsertReturns(p) ==
    /\ pc[p] = "set_evict" /\ pc'[p] = "idle"
    /\ loc[p].path = "insert"
    /\ Len(loc[p].pre) = capacity

\* C3: a Set of a key that is not in the index, on a cache that holds
\* capacity entries, removes exactly one entry, the one at the back of the
\* recency order before the insertion; every other entry is still present,
\* in its place behind the new one.
C3_EvictsExactlyTheBack ==
    [][\A p \in Procs :
          FullInsertReturns(p) =>
              LET pre == loc[p].pre
              IN /\ last'.evicted = pre[Len(pre)]
                 /\ DOMAIN items' =
                       (KeySet(pre) \ {pre[Len(pre)]}) \cup {loc[p].key}
                 /\ KeysOf(ll', ent') = <<loc[p].key>> \o AllButLast(pre)
                 /\ \A k \in KeySet(AllButLast(pre)) :
                       ent'[items'[k]] = ent[items[k]]]_vars

\* a Set has just inserted a third key into a cache of capacity 2 and
\* evicted the key that was at the back
C3_Witness ==
    /\ last.op = "set" /\ last.path = "insert"
    /\ last.evicted \in Keys
    /\ last.evicted # last.front
    /\ capacity = 2 /\ Len(ll) = 2

\* caller p returns from a Get that found key, not expired
GetHits(p, key) ==
    /\ pc[p] = "get_cs" /\ pc'[p] = "idle"
    /\ last'.op = "get" /\ last'.key = key /\ last'.found

\* C4: a Get that finds a non-expired key leaves that key at the front of
\* the recency order; and with capacity at least 2 a Set of a new key on a
\* full cache never evicts the key that was at the front (so not the key
\* just read), which stays retrievable with its value.  With capacity 2,
\* Set(A), Set(B), Get(A), Set(C) evicts B and keeps A and C.
C4_ReadRefreshesRecency ==
    [][/\ \A p \in Procs, key \in Keys :
             GetHits(p, key) =>
                 /\ FrontKey(ll', ent') = key
                 /\ KeysOf(ll', ent') =
                       <<key>> \o SelectSeq(KeysOf(ll, ent),
                                            LAMBDA k : k # key)
       /\ \A p \in Procs :
             FullInsertReturns(p) /\ capacity >= 2 =>
                 LET read == FirstKey(loc[p].pre)
                 IN /\ last'.evicted # read
                    /\ read \in DOMAIN items'
                    /\ ent'[items'[read]] = ent[items[read]]]_vars

\* with capacity 2 and B cached behind it, Get(A) has just found A at the
\* back and moved it to the front
C4_Witness ==
    /\ capacity = 2
    /\ last.op = "get" /\ last.found /\ last.key = "A"
    /\ last.front = "B"
    /\ KeysOf(ll, ent) = <<"A", "B">>

\* the entry the index holds for key k
EntryOf(k) == ent[items[k]]

\* C5 as stated: Get never returns found = true for an entry whose
\* expiresAt is set and for which now >= expiresAt, the instant
\* now = expiresAt included.
C5_NeverFoundAtOrPastExpiry ==
    last.op = "get" /\ last.found =>
        ~(EntryOf(last.key).expiresAt # ZeroTime
            /\ now >= EntryOf(last.key).expiresAt)

\* C5, amended: Get on a key of the index returns found = true exactly
\* when the entry is not expired, and an entry is expired when its
\* expiresAt is set and now > expiresAt (strictly after): at the instant
\* now = expiresAt the entry is still returned.  A sweep need not have run.
C5_FoundIffNotPastExpiry ==
    [][\A p \in Procs :
          /\ pc[p] = "get_cs" /\ pc'[p] = "idle"
          /\ last'.key \in DOMAIN items
          => LET e == EntryOf(last'.key)
             IN last'.found <=>
                   ~(e.expiresAt # ZeroTime /\ now > e.expiresAt)]_vars

\* Get has just refused an expired entry, and removed it, before the
\* janitor has swept even once
C5_Witness ==
    /\ last.op = "get" /\ last.path = "lazy" /\ ~last.found
    /\ jpc = "start"
    /\ last.key \notin DOMAIN items

\* C6: a Get that returns found = true returns the value of the most
\* recent Set of that key; a key that was evicted, lazily expired or swept
\* since its last Set is not in the index and is not found.
C6_ReturnsLastSetValue ==
    /\ last.op = "get" /\ last.found =>
          /\ lastSet[last.key] # None
          /\ last.val = lastSet[last.key]
    /\ \A k \in Keys :
          IF k \in DOMAIN items
            THEN EntryOf(k).value = lastSet[k]
            ELSE lastSet[k] = None

\* Get has just returned v2 for a key while another key, removed since its
\* last Set, is absent
C6_Witness ==
    /\ last.op = "get" /\ last.found /\ last.val = "v2"
    /\ \E k \in Keys : k # last.key /\ k \notin DOMAIN items

\* C7: Set with ttl <= 0 stores an entry with no expiry, and an entry with
\* no expiry leaves the index only by capacity eviction; it gets an expiry
\* only from a later Set of its key with a positive ttl.  Neither Get nor
\* the sweep removes it, whatever the clock reads.
C7_NoTTLNeverExpires ==
    /\ [](\A p \in Procs :
            pc[p] = "set_evict" /\ loc[p].ttl <= 0 =>
                EntryOf(loc[p].key).expiresAt = ZeroTime)
    /\ [][\A k \in Keys :
            k \in DOMAIN items /\ EntryOf(k).expiresAt = ZeroTime =>
               \/ /\ k \in DOMAIN items'
                  /\ ent'[items'[k]].expiresAt = ZeroTime
               \/ \E p \in Procs :
                     /\ pc[p] = "set_evict" /\ pc'[p] = "idle"
                     /\ last'.evicted = k
               \/ \E p \in Procs :
                     /\ pc[p] = "set_cs" /\ pc'[p] = "set_evict"
                     /\ loc'[p].key = k /\ loc'[p].ttl > 0
                     /\ k \in DOMAIN items']_vars

\* at the end of the clock's range, after a sweep, Get has just found an
\* entry that has no expiry
C7_Witness ==
    /\ now = MaxTime
    /\ last.op = "get" /\ last.found
    /\ EntryOf(last.key).expiresAt = ZeroTime
    /\ jpc = "select" /\ ~tick

\* the janitor will sweep again: a tick is buffered or still to come within
\* the clock's range, or a sweep is under way
SweepToCome ==
    \/ jpc \in {"evict", "evict_cs"}
    \/ jpc = "select" /\ (tick \/ now < MaxTime)

\* key k is cached: in the index or carried by an element of the order
Cached(k) == k \in DOMAIN items \/ k \in KeySet(KeysOf(ll, ent))

C9_CapacityCoercion ==
    requested <= 0 =>
        /\ capacity = 1
        /\ LockFree => Len(ll) <= 1
        /\ last.op = "set" /\ last.path = "insert" /\ last.front # None =>
              /\ last.evicted = last.front
              /\ KeysOf(ll, ent) = <<last.key>>

\* built with capacity -1, the cache has just evicted its one entry for a
\* second key
C9_Witness ==
    /\ requested = -1
    /\ last.op = "set" /\ last.evicted \in Keys
    /\ last.evicted # last.key

\* C10: when Stop returns, the janitor has terminated (its loop has exited
\* and janitorDone is closed), whatever it was doing when Stop was called.
C10_StopJoinsJanitor ==
    last.op = "stop" => jpc = "done"

\* the callers blocked in <-c.janitorDone: their send was taken
Delivered == {p \in Procs : pc[p] = "stop_wait"}

\* C11: every call to Stop returns.  A caller that is not inside another
\* call can always take one of the two branches of Stop's select; the
\* default branch returns at once (after the janitor has stopped, before it
\* has reached its select, while it sweeps), and a caller whose signal was
\* taken returns once the janitor has closed janitorDone, which it does once
\* and for good.  The signal is delivered only to a janitor parked in its
\* select, which then leaves the loop for good: of all Stop calls, racing
\* or not, at most one delivers it.
C11_StopAlwaysReturns ==
    /\ [](\A p \in LiveProcs :
            pc[p] = "idle" => ENABLED (StopSend(p) \/ StopDefault(p)))
    /\ \A p \in LiveProcs : (pc[p] = "stop_wait") ~> (pc[p] = "idle")
    /\ [](Cardinality(Delivered) <= 1)
    /\ [][/\ \A p \in LiveProcs :
               pc[p] # "stop_wait" /\ pc'[p] = "stop_wait" =>
                   /\ jpc = "select" /\ jpc' = "exit"
                   /\ Delivered = {}
          /\ jpc \in {"exit", "done"} => jpc' \in {"exit", "done"}
          /\ jpc = "done" => Delivered' \subseteq Delivered]_vars

\* two Stop calls race: the second has just returned by the default branch
\* while the first, whose signal the janitor took, still waits for
\* janitorDone
C11_Witness ==
    /\ last.op = "stop" /\ last.path = "default"
    /\ jpc = "exit"
    /\ \E q \in LiveProcs : q # last.by /\ pc[q] = "stop_wait"

\* a Stop called again after a Stop that stopped the janitor has returned
C11_SecondStopWitness ==
    /\ last.op = "stop" /\ last.path = "default"
    /\ jpc = "done"

\* the goroutines inside the body of Get, Set or the sweep
InCS ==
    {p \in Procs : pc[p] \in {"get_cs", "set_cs", "set_evict"}}
        \cup (IF jpc = "evict_cs" THEN {"janitor"} ELSE {})

\* the callers inside the body of Len
Reading == {p \in Procs : pc[p] = "len_cs"}

\* goroutine q takes this step
StepOf(q) == IF q = "janitor" THEN jpc' # jpc ELSE pc'[q] # pc[q]

\* the cache as one operation at a time sees it: the entries, front first
Entries(l, h) == [i \in 1 .. Len(l) |-> h[l[i]]]

\* a sequence of entries without the entry of key
Without(c, key) == SelectSeq(c, LAMBDA e : e.key # key)

\* the entry of key in a sequence of entries that holds one
EntryIn(c, key) == c[CHOOSE i \in 1 .. Len(c) : c[i].key = key]

\* Get(key) executed alone at time t on the entries c
SeqGet(c, key, t) ==
    IF \E i \in 1 .. Len(c) : c[i].key = key
      THEN LET e == EntryIn(c, key)
           IN IF e.expiresAt # ZeroTime /\ t > e.expiresAt
                THEN [found |-> FALSE, val |-> None,
                      cache |-> Without(c, key)]
                ELSE [found |-> TRUE, val |-> e.value,
                      cache |-> <<e>> \o Without(c, key)]
      ELSE [found |-> FALSE, val |-> None, cache |-> c]

\* the entries c cut back to cap entries after one insertion
SeqTrim(c, cap) == IF Len(c) > cap THEN AllButLast(c) ELSE c

\* Set(key, value, ttl) executed alone at time t on the entries c
SeqSet(c, key, value, ttl, t, cap) ==
    LET e == [key |-> key, value |-> value,
              expiresAt |-> IF ttl > 0 THEN t + ttl ELSE ZeroTime]
    IN SeqTrim(<<e>> \o Without(c, key), cap)

\* one sweep executed alone at time t on the entries c
SeqSweep(c, t) ==
    SelectSeq(c, LAMBDA e : ~(e.expiresAt # ZeroTime /\ t > e.expiresAt))

\* C12: Get, Set and the sweep exclude each other and Len: at most one
\* goroutine is inside the body of Get, Set or the sweep, it is the one
\* that holds the lock, and then nobody is inside Len.  They are atomic:
\* while a goroutine is inside, nobody else changes the cache, and nobody
\* changes it while a Len is inside.  So the operations take effect in the
\* order in which they got the lock, each on the state the one before left,
\* and what each does and returns is what it does executed alone there:
\* Get and the sweep in one step, Set in its two steps, which compose to
\* Set executed alone.
C12_MutuallyExclusiveAndAtomic ==
    /\ [](/\ Cardinality(InCS) <= 1
          /\ InCS = (IF mu.w = None THEN {} ELSE {mu.w})
          /\ Reading = mu.r
          /\ InCS # {} => Reading = {})
    /\ [][/\ \A q \in InCS :
               <<ll, ent, items>>' # <<ll, ent, items>> => StepOf(q)
          /\ Reading # {} => <<ll, ent, items>>' = <<ll, ent, items>>
          /\ \A p \in Procs :
               pc[p] = "get_cs" /\ pc'[p] = "idle" =>
                   LET r == SeqGet(Entries(ll, ent), last'.key, now)
                   IN /\ Entries(ll', ent') = r.cache
                      /\ last'.found = r.found
                      /\ last'.val = r.val
          /\ \A p \in Procs :
               pc[p] = "set_cs" /\ pc'[p] = "set_evict" =>
                   SeqTrim(Entries(ll', ent'), capacity) =
                       SeqSet(Entries(ll, ent), loc'[p].key,
                              lastSet'[loc'[p].key], loc'[p].ttl, now,
                              capacity)
          /\ \A p \in Procs :
               pc[p] = "set_evict" /\ pc'[p] = "idle" =>
                   Entries(ll', ent') = SeqTrim(Entries(ll, ent), capacity)
          /\ jpc = "evict_cs" /\ jpc' = "select" =>
               Entries(ll', ent') = SeqSweep(Entries(ll, ent), now)
          /\ \A p \in Procs :
               pc[p] = "len_cs" /\ pc'[p] = "idle" =>
                   last'.n = Len(Entries(ll, ent))
          /\ DOMAIN items' =
               {Entries(ll', ent')[i].key : i \in 1 .. Len(ll')}]_vars

\* a caller has stored an entry and not yet checked the capacity (the list
\* is one too long) while the janitor, with a tick to serve, and the other
\* caller are kept out
C12_Witness ==
    /\ \E p \in Procs : pc[p] = "set_evict" /\ mu.w = p
    /\ Len(ll) = capacity + 1
    /\ jpc = "evict"
    /\ \E e \in Elems(ll) : isExpired(ent[e], now)

\* C13: the service Get replies NotFound exactly when the engine's Get
\* reports not found, which is when the key is not in the index (never
\* set, evicted, swept) or its entry is expired; otherwise it replies OK
\* with the stored value, the value of the last Set.  Every not-found
\* yields one and the same reply, whatever the cause.
C13_NotFoundIffEngineMiss ==
    [][\A p \in Procs :
          pc[p] = "get_cs" /\ pc'[p] = "idle" =>
              LET reply == serverGet(last'.val, last'.found)
                  key == last'.key
                  absent == key \notin DOMAIN items
                  expired == ~absent /\ isExpired(EntryOf(key), now)
              IN /\ reply.code = NotFound <=> ~last'.found
                 /\ reply.code = NotFound <=> absent \/ expired
                 /\ reply.code = NotFound =>
                       reply = [code |-> NotFound, value |-> None]
                 /\ reply.code # NotFound =>
                       /\ reply.code = OK
                       /\ reply.value = EntryOf(key).value
                       /\ reply.value = lastSet[key]]_vars

\* the service replies NotFound for a key that was set and has expired; the
\* lazy removal leaves the cache of capacity 1 empty
C13_Witness ==
    /\ last.op = "get" /\ last.path = "lazy"
    /\ serverGet(last.val, last.found).code = NotFound
    /\ DOMAIN items = {}
    /\ capacity = 1

\* a Delete request for key is answered in this step
DeleteReplies(key) == last'.op = "delete" /\ last'.key = key

UpdateStores(p) ==
    /\ pc[p] = "set_cs" /\ pc'[p] = "set_evict"
    /\ loc'[p].key \in DOMAIN items

\* caller p returns from a Set that updated an entry
UpdateReturns(p) ==
    /\ pc[p] = "set_evict" /\ pc'[p] = "idle"
    /\ loc[p].path = "update"

\* C15: a Set of a key that is in the index, expired or not, leaves the
\* number of entries and the set of keys as they are and evicts nothing.
\* The entry gets the new value and an expiresAt computed from the new ttl
\* alone: none for ttl <= 0, whatever it was before, and the time of the
\* write plus ttl for ttl > 0.  The entry moves to the front; the other
\* entries are unchanged and keep their order.
C15_UpdateInPlace ==
    [][\A p \in Procs :
          /\ UpdateStores(p) =>
               LET key == loc'[p].key
                   ttl == loc'[p].ttl
               IN /\ Len(ll') = Len(ll)
                  /\ DOMAIN items' = DOMAIN items
                  /\ items'[key] = items[key]
                  /\ ent'[items'[key]] =
                        [key |-> key, value |-> lastSet'[key],
                         expiresAt |-> IF ttl > 0 THEN now + ttl
                                       ELSE ZeroTime]
                  /\ ttl <= 0 => ~isExpired(ent'[items'[key]], MaxTime + 1)
                  /\ ttl > 0 => ~isExpired(ent'[items'[key]], now)
                  /\ Entries(ll', ent') =
                        <<ent'[items'[key]]>> \o Without(Entries(ll, ent), key)
          /\ UpdateReturns(p) =>
               /\ last'.evicted = None
               /\ <<ll, ent, items>>' = <<ll, ent, items>>
               /\ Len(ll') = Len(loc[p].pre)
               /\ KeySet(KeysOf(ll', ent')) = KeySet(loc[p].pre)
               /\ FrontKey(ll', ent') = loc[p].key]_vars

\* a Set of the key at the back of a full cache of capacity 2, written at
\* the end of the clock's range, has just returned: nothing evicted, the
\* key at the front with a lifetime that starts at the write
C15_Witness ==
    /\ last.op = "set" /\ last.path = "update" /\ last.evicted = None
    /\ capacity = 2 /\ Len(ll) = 2
    /\ last.front # last.key
    /\ FrontKey(ll, ent) = last.key
    /\ now = MaxTime
    /\ EntryOf(last.key).expiresAt = MaxTime + MaxTTL

\* a Set with ttl <= 0 has stored into an entry that is at the front
\* without an expiry
C15_CancelWitness ==
    \E p \in Procs :
        /\ pc[p] = "set_evict" /\ loc[p].path = "update" /\ loc[p].ttl <= 0
        /\ EntryOf(loc[p].key).expiresAt = ZeroTime

\* caller p returns from Set
SetReturns(p) == pc[p] = "set_evict" /\ pc'[p] = "idle"

\* C16: Set always stores and never evicts the key it writes.  Its store
\* puts the key in the index with the value written, at the front; and when
\* Set returns and releases the lock, the key is in the index, its entry is
\* the one stored, at the front of the recency order, and the key evicted,
\* if any, is another key, for every capacity, capacity 1 with a full cache
\* included.
C16_SetKeepsItsKey ==
    [][\A p \in Procs :
          /\ pc[p] = "set_cs" /\ pc'[p] = "set_evict" =>
               LET key == loc'[p].key
               IN /\ key \in DOMAIN items'
                  /\ ent'[items'[key]].value = lastSet'[key]
                  /\ FrontKey(ll', ent') = key
          /\ SetReturns(p) =>
               LET key == loc[p].key
               IN /\ key \in DOMAIN items'
                  /\ ent'[items'[key]] = ent[items[key]]
                  /\ ent'[items'[key]].value = lastSet'[key]
                  /\ ll'[1] = items'[key]
                  /\ last'.evicted # key
                  /\ mu'.w = None
                  /\ 1 <= Len(ll') /\ Len(ll') <= capacity]_vars

\* built with capacity 1 and holding one entry, the cache has just taken a
\* Set of another key: the old key is evicted, the new one is the cache
C16_Witness ==
    /\ requested = 1 /\ capacity = 1
    /\ last.op = "set" /\ last.path = "insert"
    /\ last.evicted \in Keys /\ last.evicted = last.front
    /\ KeysOf(ll, ent) = <<last.key>>
    /\ mu.w = None

\* caller p returns from Get
GetReturns(p) == pc[p] = "get_cs" /\ pc'[p] = "idle"

\* C17: Get(k) changes nothing but this: if k is in the index and expired,
\* k alone leaves index and order; if k is in the index and not expired, k
\* alone moves to the front.  The entries of all keys (key, value,
\* expiresAt), the capacity, the presence of every other key and the
\* relative order of the other entries are as before, and a Get of a key
\* that is not in the index changes nothing at all.
C17_GetFrame ==
    [][\A p \in Procs :
          GetReturns(p) =>
              LET k == last'.key
                  before == Entries(ll, ent)
                  after == Entries(ll', ent')
              IN /\ capacity' = capacity
                 /\ Without(after, k) = Without(before, k)
                 /\ DOMAIN items' \ {k} = DOMAIN items \ {k}
                 /\ \A j \in DOMAIN items' : ent'[items'[j]] = ent[items[j]]
                 /\ k \notin DOMAIN items =>
                       <<ll, ent, items>>' = <<ll, ent, items>>
                 /\ k \in DOMAIN items /\ isExpired(EntryOf(k), now) =>
                       /\ k \notin DOMAIN items'
                       /\ after = Without(before, k)
                 /\ k \in DOMAIN items /\ ~isExpired(EntryOf(k), now) =>
                       /\ items' = items /\ ent' = ent
                       /\ after = <<EntryOf(k)>> \o Without(before, k)]_vars

\* a Get has just removed the expired entry at the front of two and left
\* the entry behind it, which is expired as well, in place
C17_Witness ==
    /\ last.op = "get" /\ last.path = "lazy"
    /\ last.front = last.key
    /\ Len(ll) = 1
    /\ isExpired(ent[ll[1]], now)

\* C18: one sweep removes from the index and from the recency order every
\* entry that is expired when the sweep scans the list, and no other; the
\* entries that stay keep their values, their expiries and their relative
\* order.
C18_SweepFrame ==
    [][jpc = "evict_cs" /\ jpc' = "select" =>
          /\ \A k \in DOMAIN items :
                IF isExpired(EntryOf(k), now)
                  THEN /\ k \notin DOMAIN items'
                       /\ k \notin KeySet(KeysOf(ll', ent'))
                  ELSE /\ k \in DOMAIN items'
                       /\ ent'[items'[k]] = ent[items[k]]
          /\ DOMAIN items' \subseteq DOMAIN items
          /\ KeysOf(ll', ent') =
                SelectSeq(KeysOf(ll, ent), LAMBDA k : k \in DOMAIN items')
          /\ capacity' = capacity]_vars

\* a sweep has just removed one of two entries; the one that stays has its
\* expiresAt at this very instant, which is not yet expired
C18_Witness ==
    /\ last.op = "sweep" /\ last.n = 1
    /\ Len(ll) = 1
    /\ ent[ll[1]].expiresAt = now

\* the key at the back of the recency order
BackKey(l, h) == IF Len(l) = 0 THEN None ELSE h[Back(l)].key

\* C19: in every state with a non-empty cache, the key at the front of the
\* recency order is the cached key that was set or found last, and the key
\* at the back is the cached key whose last use is the oldest; a Set that
\* evicts evicts that key, the back of the order as the Set found it.
\* (Cached keys are those in the index; being expired makes no difference.)
C19_FrontMostRecentBackNextEvicted ==
    /\ [](Len(ll) > 0 =>
            /\ Len(recent) = Len(ll)
            /\ FrontKey(ll, ent) = recent[1]
            /\ BackKey(ll, ent) = recent[Len(recent)])
    /\ [][\A p \in Procs :
            SetReturns(p) /\ last'.evicted # None =>
                /\ last'.evicted = BackKey(ll, ent)
                /\ last'.evicted = recent[Len(recent)]
                /\ last'.evicted = loc[p].pre[Len(loc[p].pre)]]_vars

\* a Get has just removed the expired entry that was used last; the front
\* is now the entry used before it, which is not expired
C19_Witness ==
    /\ last.op = "get" /\ last.path = "lazy"
    /\ last.front = last.key
    /\ Len(ll) = 1
    /\ ~isExpired(ent[ll[1]], now)
    /\ recent = <<ent[ll[1]].key>>

\* caller p is inside Get, Set or Len: blocked on c.mu or under it
Called(p) ==
    pc[p] \in {"get_wait", "get_drain", "get_cs", "set_wait", "set_drain",
               "set_cs", "set_evict", "len_wait", "len_cs"}

\* the janitor is inside evictExpired: blocked on c.mu or under it
Sweeping == jpc \in {"evict", "evict_drain", "evict_cs"}

\* goroutine q holds c.mu, as the writer or as a reader
HoldsLock(q) == mu.w = q \/ q \in mu.r

\* C20: under fair scheduling, every Get, Set and Len that a caller has
\* entered returns, and every sweep the janitor has started ends with the
\* janitor back at its select: each gets the lock, however the others
\* compete for it, runs its body on whatever path, and releases the lock
\* as it returns.  The janitor holds no lock while it waits for a tick or
\* the stop signal, and a caller holds none outside Get, Set and Len, so
\* not while it waits in Stop either.
C20_NoOperationBlocksForever ==
    /\ \A p \in WaitProcs : Called(p) ~> (pc[p] = "idle")
    /\ Sweeping ~> (jpc = "select")
    /\ [](jpc \in {"start", "select", "exit", "done"} =>
             ~HoldsLock("janitor"))
    /\ [](\A p \in WaitProcs :
             pc[p] \in {"idle", "stop_wait", "get_wait", "set_wait",
                        "len_wait"} => ~HoldsLock(p))
    /\ [][\A p \in WaitProcs :
             Called(p) /\ pc'[p] = "idle" =>
                 /\ pc[p] \in {"get_cs", "set_evict", "len_cs"}
                 /\ HoldsLock(p)
                 /\ ~HoldsLock(p)']_vars

\* a Get that had to wait has just removed an expired entry and returned,
\* while the other caller is blocked in Set's Lock and the janitor, with a
\* tick to serve, in evictExpired's
C20_Witness ==
    /\ last.op = "get" /\ last.path = "lazy"
    /\ \E q \in WaitProcs : q # last.by /\ pc[q] = "set_wait"
    /\ jpc = "evict"
    /\ mu = Unlocked

\* a caller has the writers' mutex and waits for a Len to leave, with the
\* janitor blocked behind it
C20_DrainWitness ==
    /\ \E p, q \in WaitProcs :
          pc[p] \in {"get_drain", "set_drain"} /\ pc[q] = "len_cs"
    /\ jpc = "evict"

\* the states of the background task
Running == jpc \in {"start", "select", "evict", "evict_cs"}

StopRequested == jpc = "exit"

Stopped == jpc = "done"

\* a caller's stop signal is taken in this step
StopDelivered == \E p \in Procs : pc[p] = "idle" /\ pc'[p] = "stop_wait"

\* C21: the janitor goes Running -> StopRequested -> Stopped and never
\* back.  The one janitor New starts is never started again.  It leaves
\* Running only by taking a stop signal, which it takes only while it
\* waits in its select, and taking it ends the wait at once without a
\* sweep, even when a tick is due; from then on it starts no sweep, takes
\* no tick and holds no lock.
C21_JanitorStateMachine ==
    /\ [][/\ Running =>
               \/ Running'
               \/ StopRequested' /\ jpc = "select" /\ StopDelivered
          /\ StopRequested => StopRequested' \/ Stopped'
          /\ Stopped => Stopped'
          /\ jpc' = "start" => jpc = "start"
          /\ StopDelivered => jpc = "select" /\ StopRequested'
          /\ ~Running =>
               /\ last'.op # "sweep"
               /\ tick => tick']_vars
    /\ [](~Running => mu.w # "janitor")

\* the janitor was stopped while a tick was due and an expired entry was
\* cached: the Stop that stopped it has just returned, the tick is still
\* in the channel and the entry still in the cache
C21_Witness ==
    /\ Stopped /\ tick
    /\ last.op = "stop" /\ last.path = "signalled"
    /\ \E e \in Elems(ll) : isExpired(ent[e], now)

\* caller p returns from Len
LenReturns(p) == pc[p] = "len_cs" /\ pc'[p] = "idle"

\* C22: Len returns the number of entries in the recency order, which is
\* the number of keys in the index, read while no Get, Set or sweep is
\* inside its body; entries that are expired and not yet removed are
\* counted.  Len changes nothing: not when it takes the read lock and not
\* when it returns.
C22_LenCountsPresentEntries ==
    [][\A p \in Procs :
          /\ LenReturns(p) =>
               /\ last'.n = Len(ll)
               /\ last'.n = Cardinality(DOMAIN items)
               /\ last'.n = Cardinality({e \in Elems(ll) :
                                            isExpired(ent[e], now)})
                            + Cardinality({e \in Elems(ll) :
                                            ~isExpired(ent[e], now)})
               /\ InCS = {} /\ mu.w = None
          /\ LenReturns(p) \/ (pc[p] = "idle" /\ pc'[p] = "len_cs") =>
               UNCHANGED <<ll, ent, items, capacity, lastSet, recent, now,
                           tick, jpc>>]_vars

\* Len has just returned 2 for a cache whose two entries are both expired
\* and not yet removed
C22_Witness ==
    /\ last.op = "len" /\ last.n = 2
    /\ Len(ll) = 2
    /\ \A e \in Elems(ll) : isExpired(ent[e], now)

\* caller p, inside Set, stores
SetStores(p) == pc[p] = "set_cs" /\ pc'[p] = "set_evict"

\* C23: a call issued twice in a row, with no time passing and nothing in
\* between, does what it does issued once.  Set(k, v, ttl): what the store
\* and the capacity check of one Set make of the cache, a second
\* Set(k, v, ttl) at the same time leaves as it is; and in any state where
\* k is at the front with the value and the expiry this Set writes, the
\* state one Set leaves, neither the store nor the capacity check changes
\* list, entries or index.  Get(k): a second Get(k) at the same time
\* returns what the first returned and leaves the cache as the first left
\* it: after a hit k is at the front, not expired, and a Get in such a
\* state finds the same value and changes nothing; after a miss or a lazy
\* removal k is not in the index, and a Get in such a state finds nothing
\* and changes nothing.  Get leaves the key, value and expiry of every
\* entry that is not expired as they are.
C23_Reissuable ==
    [][\A p \in Procs :
          /\ SetStores(p) =>
               LET key == loc'[p].key
                   ttl == loc'[p].ttl
                   value == lastSet'[key]
                   written == [key |-> key, value |-> value,
                               expiresAt |-> IF ttl > 0 THEN now + ttl
                                             ELSE ZeroTime]
                   once == SeqSet(Entries(ll, ent), key, value, ttl, now,
                                  capacity)
               IN /\ SeqTrim(Entries(ll', ent'), capacity) = once
                  /\ SeqSet(once, key, value, ttl, now, capacity) = once
                  /\ ent'[ll'[1]] = written
                  /\ Len(ll) > 0 /\ ent[ll[1]] = written =>
                        <<ll, ent, items>>' = <<ll, ent, items>>
          /\ SetReturns(p) /\ Len(ll) <= capacity =>
               <<ll, ent, items>>' = <<ll, ent, items>>
          /\ GetReturns(p) =>
               LET k == last'.key
                   once == SeqGet(Entries(ll, ent), k, now)
                   twice == SeqGet(once.cache, k, now)
               IN /\ Entries(ll', ent') = once.cache
                  /\ last'.found = once.found /\ last'.val = once.val
                  /\ twice = once
                  /\ last'.found =>
                        /\ ent'[ll'[1]].key = k
                        /\ ~isExpired(ent'[ll'[1]], now)
                        /\ last'.val = ent'[ll'[1]].value
                  /\ ~last'.found => k \notin DOMAIN items'
                  /\ Len(ll) > 0 /\ ent[ll[1]].key = k
                           /\ ~isExpired(ent[ll[1]], now) =>
                        /\ last'.found /\ last'.val = ent[ll[1]].value
                        /\ <<ll, ent, items>>' = <<ll, ent, items>>
                  /\ k \notin DOMAIN items =>
                        /\ ~last'.found
                        /\ <<ll, ent, items>>' = <<ll, ent, items>>
                  /\ \A j \in DOMAIN items :
                        ~isExpired(EntryOf(j), now) =>
                            /\ j \in DOMAIN items'
                            /\ ent'[items'[j]] = ent[items[j]]]_vars

\* a Get has just found the key that a call before it had left at the front
\* of a cache of two entries: the cache is as it was
C23_Witness ==
    /\ last.op = "get" /\ last.found
    /\ last.front = last.key
    /\ FrontKey(ll, ent) = last.key
    /\ Len(ll) = 2
    /\ recent[1] = last.key

\* caller p, inside Set, stores into an entry that is in the index and
\* expired
Revives(p) ==
    /\ SetStores(p)
    /\ loc'[p].key \in DOMAIN items
    /\ isExpired(EntryOf(loc'[p].key), now)

\* C24: a Set of a key whose entry is expired and still in the index takes
\* the update path.  The same element gets the new value and the expiry of
\* the new ttl, so it is not expired any more, and moves to the front; the
\* number of entries and the keys are as before and the other entries
\* unchanged; and when that Set returns nothing is evicted, at capacity or
\* not.
C24_ExpiredEntryRevivedInPlace ==
    [][\A p \in Procs :
          /\ Revives(p) =>
               LET key == loc'[p].key
                   ttl == loc'[p].ttl
               IN /\ loc'[p].path = "update" /\ loc'[p].revived
                  /\ items'[key] = items[key]
                  /\ ent'[items'[key]] =
                        [key |-> key, value |-> lastSet'[key],
                         expiresAt |-> IF ttl > 0 THEN now + ttl
                                       ELSE ZeroTime]
                  /\ ~isExpired(ent'[items'[key]], now)
                  /\ ll'[1] = items'[key]
                  /\ Len(ll') = Len(ll)
                  /\ DOMAIN items' = DOMAIN items
                  /\ Without(Entries(ll', ent'), key) =
                        Without(Entries(ll, ent), key)
          /\ SetStores(p) /\ loc'[p].revived => Revives(p)
          /\ SetReturns(p) /\ loc[p].revived =>
               /\ loc[p].path = "update"
               /\ last'.evicted = None
               /\ <<ll, ent, items>>' = <<ll, ent, items>>
               /\ Len(ll') = Len(loc[p].pre)
               /\ KeySet(KeysOf(ll', ent')) = KeySet(loc[p].pre)]_vars

\* in a full cache of capacity 2, a Set of the key at the back, whose entry
\* had expired and was still there, has just returned: both keys are
\* cached, the key written is at the front and not expired
C24_Witness ==
    /\ last.op = "set" /\ last.revived /\ last.evicted = None
    /\ capacity = 2 /\ Len(ll) = 2
    /\ last.front # last.key
    /\ FrontKey(ll, ent) = last.key
    /\ ~isExpired(EntryOf(last.key), now)

\* C25: the capacity check of Set looks at the recency order alone.  A Set
\* that goes over capacity removes the entry at the back, expired or not,
\* and leaves every other entry where it is, the expired ones included: an
\* entry that is not expired is evicted while expired entries stay cached.
C25_EvictionIgnoresExpiry ==
    [][\A p \in Procs :
          SetReturns(p) /\ OverCapacity(ll, capacity) =>
              LET back == Back(ll)
              IN /\ last'.evicted = ent[back].key
                 /\ last'.stale = isExpired(ent[back], now)
                 /\ back \notin Elems(ll')
                 /\ ll' = SubSeq(ll, 1, Len(ll) - 1)
                 /\ \A e \in Elems(ll) \ {back} :
                       /\ ent'[e] = ent[e]
                       /\ isExpired(ent[e], now) =>
                             ent[e].key \in DOMAIN items']_vars

\* a Set has just evicted an entry that was not expired from a cache of
\* capacity 2 in which an expired entry is still cached
C25_Witness ==
    /\ last.op = "set" /\ last.evicted \in Keys /\ ~last.stale
    /\ capacity = 2 /\ Len(ll) = 2
    /\ \E e \in Elems(ll) : isExpired(ent[e], now)

\* key k, cached and expired, leaves the index in this step
ExpiredLeaves(k) ==
    /\ k \in DOMAIN items
    /\ isExpired(EntryOf(k), now)
    /\ k \notin DOMAIN items'

\* C26: once the janitor has stopped, Get, Set and Len go on as before.
\* A caller that is in no call can enter any of them as soon as nobody
\* holds the lock, and a caller inside one can finish it.  Index and
\* recency order stay in bijection and, outside the lock, within the
\* capacity.  Get finds a key exactly when it is in the index and not
\* expired, and returns its value; Set stores; Len counts.  No sweep runs
\* any more: an expired entry leaves the cache only by a Get of its key or
\* by a capacity eviction, and stays cached otherwise.
C26_WorksAfterStop ==
    /\ [](Stopped =>
            /\ C2_Bijection
            /\ LockFree => /\ Cardinality(DOMAIN items) = Len(ll)
                           /\ Len(ll) <= capacity
            /\ \A p \in Procs :
                  /\ pc[p] = "idle" /\ InCS = {} /\ Reading = {} =>
                        ENABLED LockGet(p) /\ ENABLED LockSet(p)
                  /\ pc[p] = "idle" /\ InCS = {} => ENABLED RLockLen(p)
                  /\ pc[p] = "get_cs" =>
                        \A key \in Keys : ENABLED Get(p, key)
                  /\ pc[p] = "set_cs" =>
                        \A key \in Keys, value \in Values, ttl \in TTLs :
                            ENABLED SetStore(p, key, value, ttl)
                  /\ pc[p] = "set_evict" => ENABLED SetEvict(p)
                  /\ pc[p] = "len_cs" => ENABLED CacheLen(p))
    /\ [][Stopped =>
            /\ Stopped'
            /\ last'.op # "sweep"
            /\ \A p \in Procs :
                  /\ GetReturns(p) =>
                        LET k == last'.key
                        IN /\ last'.found <=>
                                 /\ k \in DOMAIN items
                                 /\ ~isExpired(EntryOf(k), now)
                           /\ last'.found =>
                                 /\ last'.val = EntryOf(k).value
                                 /\ last'.val = lastSet[k]
                  /\ SetStores(p) =>
                        /\ loc'[p].key \in DOMAIN items'
                        /\ ent'[items'[loc'[p].key]].value =
                              lastSet'[loc'[p].key]
                  /\ LenReturns(p) => last'.n = Len(ll)
            /\ \A k \in Keys :
                  ExpiredLeaves(k) =>
                      \E p \in Procs :
                          \/ GetReturns(p) /\ last'.key = k /\ ~last'.found
                          \/ SetReturns(p) /\ last'.evicted = k]_vars

\* with the janitor stopped and the clock at the end of its range, a Get
\* has just removed the expired entry of its key; the other entry, expired
\* as well, stays cached with nobody left to sweep it
C26_Witness ==
    /\ Stopped /\ now = MaxTime
    /\ last.op = "get" /\ last.path = "lazy"
    /\ Len(ll) = 1
    /\ isExpired(ent[ll[1]], now)
====
